---- MODULE Spec2Model ----
(***************************************************************************)
(* A model of releaser.py: the semantic-version grammar, the conventional- *)
(* commit classifier, the changelog builder and renderer, and the release  *)
(* script with its confirmation gate.                                      *)
(*                                                                         *)
(* A Python str is a sequence of one-character strings.  None is the       *)
(* one-element sequence <<"None">>, which is no str of the model since      *)
(* "None" is not a character.                                              *)
(***************************************************************************)
EXTENDS Integers, Sequences, FiniteSets, TLC

VARIABLES
    version_file,     \* content of the file args.version_file
    changelog_dir,    \* files of args.changelog_directory: set of [name, content]
    head_ref,         \* repo.head.ref.name
    untracked_files,  \* repo.untracked_files
    tags,             \* repo.tags, in the collaborator's order: [name, commit]
    commits,          \* repo.iter_commits(), newest first: [hexsha, message]
    release_type,     \* args.release_type
    cur_ver,          \* the SemanticVersion object of release()
    init_sha,         \* change_log: the boundary identifier
    walked,           \* change_log: the commits iter_commits_to has yielded
    raw,              \* the RawChangelog change_log returned
    log,              \* the document render_basic returned
    s,                \* the answer read by input()
    pc,               \* position in the script
    exc               \* the exception that ended the run, if any

vars == <<version_file, changelog_dir, head_ref, untracked_files, tags, commits,
          release_type, cur_ver, init_sha, walked, raw, log, s, pc, exc>>

----------------------------------------------------------------------------
(* Bounds of the model *)

MaxCommits == 3
MaxTags == 2
MaxDigits == 2
MaxDescLen == 3

----------------------------------------------------------------------------
(* Characters and strings *)

None == <<"None">>

\* The characters of the model in code-point order
Ascii ==
    <<"\t", "\n", "\r", " ", "(", ")", "+", "-", ".",
      "0", "1", "2", "3", "4", "5", "6", "7", "8", "9", ":",
      "A", "B", "C", "D", "E", "F", "G", "H", "I", "J", "K", "L", "M",
      "N", "O", "P", "Q", "R", "S", "T", "U", "V", "W", "X", "Y", "Z", "_",
      "a", "b", "c", "d", "e", "f", "g", "h", "i", "j", "k", "l", "m",
      "n", "o", "p", "q", "r", "s", "t", "u", "v", "w", "x", "y", "z">>

Ord(c) == CHOOSE i \in 1..Len(Ascii) : Ascii[i] = c

DigitChars == <<"0", "1", "2", "3", "4", "5", "6", "7", "8", "9">>

IsDigit(c) == \E i \in 1..10 : DigitChars[i] = c

IsLetter(c) ==
    \/ Ord("A") <= Ord(c) /\ Ord(c) <= Ord("Z")
    \/ Ord("a") <= Ord(c) /\ Ord(c) <= Ord("z")

\* \w
IsWord(c) == IsDigit(c) \/ IsLetter(c) \/ c = "_"

\* [0-9a-zA-Z-]
IsIdentChar(c) == IsDigit(c) \/ IsLetter(c) \/ c = "-"

\* Python's comparison of two str: lexicographic by code point
StrLess(a, b) ==
    \E k \in 1..(Len(b)) :
        /\ \A j \in 1..(k - 1) : j <= Len(a) /\ a[j] = b[j]
        /\ \/ k = Len(a) + 1
           \/ k <= Len(a) /\ Ord(a[k]) < Ord(b[k])

\* str.find: the first index of character c in t, 0 when there is none
Find(t, c) ==
    IF \E i \in 1..Len(t) : t[i] = c
    THEN CHOOSE i \in 1..Len(t) : t[i] = c /\ \A j \in 1..(i - 1) : t[j] # c
    ELSE 0

\* The pieces of t between the occurrences of the separator character c
RECURSIVE Split(_, _)
Split(t, c) ==
    LET i == Find(t, c)
    IN  IF i = 0 THEN <<t>>
        ELSE <<SubSeq(t, 1, i - 1)>> \o Split(SubSeq(t, i + 1, Len(t)), c)

\* int(): the value of a string of decimal digits
RECURSIVE int(_)
int(t) ==
    IF Len(t) = 0 THEN 0
    ELSE 10 * int(SubSeq(t, 1, Len(t) - 1))
         + ((CHOOSE i \in 1..10 : DigitChars[i] = t[Len(t)]) - 1)

\* f"{n}": the decimal digits of a non-negative integer
RECURSIVE format_int(_)
format_int(n) ==
    IF n < 10 THEN <<DigitChars[n + 1]>>
    ELSE format_int(n \div 10) \o <<DigitChars[(n % 10) + 1]>>

\* The positions where "$" matches without re.MULTILINE: the end of the
\* string, and just before a newline that is the string's last character
DollarEnds(t) ==
    {Len(t)} \cup (IF Len(t) > 0 /\ t[Len(t)] = "\n" THEN {Len(t) - 1} ELSE {})

----------------------------------------------------------------------------
(* SemanticVersion *)

\* 0|[1-9]\d*
NumericIdentifier(t) ==
    /\ Len(t) >= 1
    /\ \A i \in 1..Len(t) : IsDigit(t[i])
    /\ Len(t) > 1 => t[1] # "0"

\* 0|[1-9]\d*|\d*[a-zA-Z-][0-9a-zA-Z-]*
PrereleaseIdentifier(t) ==
    \/ NumericIdentifier(t)
    \/ /\ \A i \in 1..Len(t) : IsIdentChar(t[i])
       /\ \E i \in 1..Len(t) : ~IsDigit(t[i])

\* [0-9a-zA-Z-]+
BuildIdentifier(t) ==
    /\ Len(t) >= 1
    /\ \A i \in 1..Len(t) : IsIdentChar(t[i])

\* The groups of semver_re on the text t that "^" and "$" delimit, or None:
\* the core runs to the first "-" or "+", the prerelease from a "-" to the
\* first "+", the build metadata from the first "+" to the end
semver_groups(t) ==
    LET p == Find(t, "+")
        before == IF p = 0 THEN t ELSE SubSeq(t, 1, p - 1)
        build == IF p = 0 THEN None ELSE SubSeq(t, p + 1, Len(t))
        h == Find(before, "-")
        core == IF h = 0 THEN before ELSE SubSeq(before, 1, h - 1)
        pre == IF h = 0 THEN None ELSE SubSeq(before, h + 1, Len(before))
        nums == Split(core, ".")
    IN  IF /\ Len(nums) = 3
           /\ \A i \in 1..3 : NumericIdentifier(nums[i])
           /\ pre # None =>
                  \A i \in 1..Len(Split(pre, ".")) :
                      PrereleaseIdentifier(Split(pre, ".")[i])
           /\ build # None =>
                  \A i \in 1..Len(Split(build, ".")) :
                      BuildIdentifier(Split(build, ".")[i])
        THEN <<nums[1], nums[2], nums[3], pre, build>>
        ELSE None

\* semver_re.match(str): the groups, or None when nothing matches
semver_re_match(str) ==
    LET ends == {e \in DollarEnds(str) : semver_groups(SubSeq(str, 1, e)) # None}
    IN  IF ends = {} THEN None
        ELSE semver_groups(SubSeq(str, 1, CHOOSE e \in ends : TRUE))

\* A SemanticVersion object whose attributes are not assigned yet
NoVersion ==
    [major |-> -1, minor |-> -1, patch |-> -1,
     prerelease |-> None, build_metadata |-> None]

\* SemanticVersion.parse on a match m
SemanticVersion_parse(m) ==
    [major |-> int(m[1]), minor |-> int(m[2]), patch |-> int(m[3]),
     prerelease |-> m[4], build_metadata |-> m[5]]

\* SemanticVersion.__str__
SemanticVersion_str(v) ==
    format_int(v.major) \o <<".">> \o format_int(v.minor) \o <<".">>
        \o format_int(v.patch)
        \o (IF v.prerelease # None THEN <<"-">> \o v.prerelease ELSE <<>>)
        \o (IF v.build_metadata # None THEN <<"+">> \o v.build_metadata ELSE <<>>)

----------------------------------------------------------------------------
(* ConventionalCommit *)

\* The alternatives of the type group, in the order the pattern tries them
CommitTypes ==
    <<<<"f", "e", "a", "t">>, <<"f", "i", "x">>,
      <<"r", "e", "f", "a", "c", "t", "o", "r">>, <<"b", "u", "i", "l", "d">>>>

StartsWith(t, prefix) ==
    Len(t) >= Len(prefix) /\ SubSeq(t, 1, Len(prefix)) = prefix

\* \(?\w*?\)? matched against the whole of t
ScopeMatches(t) ==
    LET a == IF Len(t) > 0 /\ t[1] = "(" THEN 2 ELSE 1
        b == IF Len(t) >= a /\ t[Len(t)] = ")" THEN Len(t) - 1 ELSE Len(t)
    IN  \A i \in a..b : IsWord(t[i])

\* semantic_re.match(str) under re.DOTALL: the groups <<type, scope,
\* description>>, or None. The lazy description ends at the first place
\* where "$" matches.
semantic_re_match(str) ==
    LET ts == {i \in 1..Len(CommitTypes) : StartsWith(str, CommitTypes[i])}
    IN  IF ts = {} THEN None
        ELSE LET type == CommitTypes[CHOOSE i \in ts : \A j \in ts : i <= j]
                 rest == SubSeq(str, Len(type) + 1, Len(str))
                 colon == Find(rest, ":")
             IN  IF colon = 0 \/ ~ScopeMatches(SubSeq(rest, 1, colon - 1))
                 THEN None
                 ELSE LET e == CHOOSE e \in DollarEnds(rest) :
                                   /\ e >= colon
                                   /\ \A f \in DollarEnds(rest) : f >= colon => e <= f
                      IN  <<type, SubSeq(rest, 1, colon - 1),
                            SubSeq(rest, colon + 1, e)>>

\* str.strip(chars), chars given as a set of characters
RECURSIVE lstrip(_, _)
lstrip(t, chars) ==
    IF Len(t) > 0 /\ t[1] \in chars THEN lstrip(Tail(t), chars) ELSE t

RECURSIVE rstrip(_, _)
rstrip(t, chars) ==
    IF Len(t) > 0 /\ t[Len(t)] \in chars
    THEN rstrip(SubSeq(t, 1, Len(t) - 1), chars)
    ELSE t

StripChars == {" ", "\n"}

strip(t, chars) == rstrip(lstrip(t, chars), chars)

\* str.replace(old, new) for a one-character old
replace(t, old, new) == [i \in 1..Len(t) |-> IF t[i] = old THEN new ELSE t[i]]

\* The post-processing of the description group
normalise_description(d) == replace(strip(d, StripChars), "\n", " ")

\* ConventionalCommit.parse: None, or the commit
ConventionalCommit_parse(str) ==
    LET m == semantic_re_match(str)
    IN  IF m = None THEN None
        ELSE <<m[1], m[2], normalise_description(m[3])>>

cc_type(c) == c[1]

cc_scope(c) == c[2]

cc_description(c) == c[3]

----------------------------------------------------------------------------
(* The changelog *)

NoSha == 0

NoTag == [name |-> None, commit |-> NoSha]

\* find_tag_by_name: the first tag named name or "v" + name, or None
find_tag_by_name(ts, name) ==
    LET hits == {i \in 1..Len(ts) : ts[i].name = name \/ ts[i].name = <<"v">> \o name}
    IN  IF hits = {} THEN NoTag
        ELSE ts[CHOOSE i \in hits : \A j \in hits : i <= j]

\* A mutant of last_tag: pop(0), the first tag
last_tag_pop_first(ts) == ts[1]

\* last_tag: repo.tags.pop(), which raises IndexError on an empty list
last_tag_raises(ts) == Len(ts) = 0

last_tag(ts) == ts[Len(ts)]

\* A mutant of iter_commits_to: the boundary commit is yielded before the break
RECURSIVE iter_commits_to_inclusive(_, _)
iter_commits_to_inclusive(cs, sha) ==
    IF Len(cs) = 0 THEN <<>>
    ELSE <<cs[1]>> \o (IF cs[1].hexsha # sha
                       THEN iter_commits_to_inclusive(Tail(cs), sha)
                       ELSE <<>>)

\* iter_commits_to: the commits yielded before the one whose hexsha is sha
RECURSIVE iter_commits_to(_, _)
iter_commits_to(cs, sha) ==
    IF Len(cs) = 0 THEN <<>>
    ELSE IF cs[1].hexsha # sha
         THEN <<cs[1]>> \o iter_commits_to(Tail(cs), sha)
         ELSE <<>>

\* The loop of change_log: the commits that parse, in the order met
RECURSIVE collect(_)
collect(cs) ==
    IF Len(cs) = 0 THEN <<>>
    ELSE LET cc == ConventionalCommit_parse(cs[1].message)
         IN  (IF cc = None THEN <<>> ELSE <<cc>>) \o collect(Tail(cs))

\* One step of a stable sort by type: c goes after every element whose
\* type is not greater than its own
RECURSIVE insert_by_type(_, _)
insert_by_type(sorted_ccs, c) ==
    IF Len(sorted_ccs) = 0 THEN <<c>>
    ELSE IF StrLess(cc_type(c), cc_type(sorted_ccs[1]))
         THEN <<c>> \o sorted_ccs
         ELSE <<sorted_ccs[1]>> \o insert_by_type(Tail(sorted_ccs), c)

\* A mutant of sorted_by_type: groupby on the list as collected
not_sorted(ccs) == ccs

\* sorted(ccs, key=lambda x: x.type)
RECURSIVE sorted_by_type(_)
sorted_by_type(ccs) ==
    IF Len(ccs) = 0 THEN <<>>
    ELSE insert_by_type(sorted_by_type(SubSeq(ccs, 1, Len(ccs) - 1)), ccs[Len(ccs)])

\* itertools.groupby(ccs, lambda x: x.type): one <<key, items>> per run of
\* consecutive elements of equal type
RECURSIVE groupby_type(_)
groupby_type(ccs) ==
    IF Len(ccs) = 0 THEN <<>>
    ELSE LET rest == groupby_type(Tail(ccs))
         IN  IF Len(rest) > 0 /\ rest[1][1] = cc_type(ccs[1])
             THEN <<<<rest[1][1], <<ccs[1]>> \o rest[1][2]>>>> \o Tail(rest)
             ELSE <<<<cc_type(ccs[1]), <<ccs[1]>>>>>> \o rest

\* "\n".join(lines)
RECURSIVE join_lines(_)
join_lines(lines) ==
    IF Len(lines) = 0 THEN <<>>
    ELSE IF Len(lines) = 1 THEN lines[1]
         ELSE lines[1] \o <<"\n">> \o join_lines(Tail(lines))

\* The fixed words of the document's heading, kept as one token
Title == <<"#", " ", "TITLE", " ">>

RECURSIVE render_groups(_)
render_groups(m) ==
    IF Len(m) = 0 THEN <<>>
    ELSE <<"#", "#", " ">> \o m[1][1] \o <<" ", "\n">> \o <<"\n">>
         \o join_lines([i \in 1..Len(m[1][2]) |->
                           <<"-", ".", " ">> \o cc_description(m[1][2][i])])
         \o <<"\n", "\n">> \o render_groups(Tail(m))

\* render_basic
render_basic(ver, m) ==
    Title \o SemanticVersion_str(ver) \o <<" ", "\n", "\n">> \o render_groups(m)

----------------------------------------------------------------------------
(* The script *)

\* The default of --release-branch
release_branch == "master"

\* The file release() and dump() write: changelog_dir and version_file keep
\* one content per name
write_file(dir, name, content) ==
    {f \in dir : f.name # name} \cup {[name |-> name, content |-> content]}

MdSuffix == <<".", "m", "d">>

\* pre_check: leaves with exit status 1 off the release branch or with
\* untracked files
PreCheck ==
    /\ pc = "pre_check"
    /\ IF head_ref # release_branch \/ Len(untracked_files) > 0
       THEN pc' = "exit" /\ exc' = "SystemExit"
       ELSE pc' = "load" /\ exc' = exc
    /\ UNCHANGED <<version_file, changelog_dir, head_ref, untracked_files, tags,
                   commits, release_type, cur_ver, init_sha, walked, raw, log, s>>

\* cur_ver = SemanticVersion(); cur_ver.load(version_file)
Load ==
    /\ pc = "load"
    /\ LET m == semver_re_match(version_file)
       IN  IF m = None
           THEN pc' = "exit" /\ exc' = "ValueError" /\ cur_ver' = cur_ver
           ELSE pc' = "change_log" /\ exc' = exc /\ cur_ver' = SemanticVersion_parse(m)
    /\ UNCHANGED <<version_file, changelog_dir, head_ref, untracked_files, tags,
                   commits, release_type, init_sha, walked, raw, log, s>>

\* raw = change_log(cur_ver)
ChangeLog ==
    /\ pc = "change_log"
    /\ LET found == find_tag_by_name(tags, SemanticVersion_str(cur_ver))
       IN  IF found = NoTag /\ last_tag_raises(tags)
           THEN /\ pc' = "exit"
                /\ exc' = "IndexError"
                /\ UNCHANGED <<init_sha, walked, raw>>
           ELSE LET r == IF found = NoTag THEN last_tag(tags) ELSE found
                    sha == IF r # NoTag THEN r.commit ELSE NoSha
                    yielded == iter_commits_to(commits, sha)
                IN  /\ init_sha' = sha
                    /\ walked' = yielded
                    /\ raw' = groupby_type(sorted_by_type(collect(yielded)))
                    /\ pc' = "bump"
                    /\ exc' = exc
    /\ UNCHANGED <<version_file, changelog_dir, head_ref, untracked_files, tags,
                   commits, release_type, cur_ver, log, s>>

\* A mutant of bump: the minor case leaves the patch as it is
bump_minor_keeps_patch(v, t) ==
    CASE t = "major" -> [v EXCEPT !.major = v.major + 1, !.minor = 0, !.patch = 0]
      [] t = "minor" -> [v EXCEPT !.minor = v.minor + 1]
      [] t = "patch" -> [v EXCEPT !.patch = v.patch + 1]
      [] OTHER -> v

\* The match statement of release()
bump(v, t) ==
    CASE t = "major" -> [v EXCEPT !.major = v.major + 1, !.minor = 0, !.patch = 0]
      [] t = "minor" -> [v EXCEPT !.minor = v.minor + 1, !.patch = 0]
      [] t = "patch" -> [v EXCEPT !.patch = v.patch + 1]
      [] OTHER -> v

\* A mutant of Bump: the changelog is built lazily and so resolves its
\* boundary with the version already bumped
Bump_then_change_log ==
    /\ pc = "bump"
    /\ cur_ver' = bump(cur_ver, release_type)
    /\ LET found == find_tag_by_name(tags, SemanticVersion_str(cur_ver'))
           r == IF found = NoTag THEN last_tag(tags) ELSE found
       IN  /\ init_sha' = r.commit
           /\ walked' = iter_commits_to(commits, r.commit)
           /\ raw' = groupby_type(sorted_by_type(collect(walked')))
    /\ pc' = "render"
    /\ UNCHANGED <<version_file, changelog_dir, head_ref, untracked_files, tags,
                   commits, release_type, log, s, exc>>

Bump ==
    /\ pc = "bump"
    /\ cur_ver' = bump(cur_ver, release_type)
    /\ pc' = "render"
    /\ UNCHANGED <<version_file, changelog_dir, head_ref, untracked_files, tags,
                   commits, release_type, init_sha, walked, raw, log, s, exc>>

\* log = render_basic(cur_ver, raw), written to <changelog_directory>/<cur_ver>.md
RenderWrite ==
    /\ pc = "render"
    /\ log' = render_basic(cur_ver, raw)
    /\ changelog_dir' =
           write_file(changelog_dir, SemanticVersion_str(cur_ver) \o MdSuffix, log')
    /\ pc' = "input"
    /\ UNCHANGED <<version_file, head_ref, untracked_files, tags, commits,
                   release_type, cur_ver, init_sha, walked, raw, s, exc>>

\* What the human may type at the prompt
Answers == {<<"y">>, <<"Y">>, <<"n">>, <<>>, <<"y", "e", "s">>}

\* A mutant of Input: any answer that begins with "y" or "Y" confirms
Input_prefix_confirms ==
    /\ pc = "input"
    /\ \E a \in Answers :
           /\ s' = a
           /\ pc' = IF Len(a) > 0 /\ a[1] \in {"y", "Y"} THEN "dump" ELSE "done"
    /\ UNCHANGED <<version_file, changelog_dir, head_ref, untracked_files, tags,
                   commits, release_type, cur_ver, init_sha, walked, raw, log, exc>>

\* s = input(...): "y" or "Y" goes on to persist, anything else aborts
Input ==
    /\ pc = "input"
    /\ \E a \in Answers :
           /\ s' = a
           /\ pc' = IF a = <<"y">> \/ a = <<"Y">> THEN "dump" ELSE "done"
    /\ UNCHANGED <<version_file, changelog_dir, head_ref, untracked_files, tags,
                   commits, release_type, cur_ver, init_sha, walked, raw, log, exc>>

\* ver.dump(args.version_file)
Dump ==
    /\ pc = "dump"
    /\ version_file' = SemanticVersion_str(cur_ver)
    /\ pc' = "commit_change"
    /\ UNCHANGED <<changelog_dir, head_ref, untracked_files, tags, commits,
                   release_type, cur_ver, init_sha, walked, raw, log, s, exc>>

ReleaseMessage(ver) ==
    <<"c", "h", "o", "r", "e", ":", " ", "r", "e", "l", "e", "a", "s", "e", " ">>
        \o SemanticVersion_str(ver)

\* commit_change: the release commit, then the tag named str(ver) on it; git
\* refuses a tag name that exists, and lists the new tag where its order puts it
CommitChange ==
    /\ pc = "commit_change"
    /\ LET sha == Len(commits) + 1
           name == SemanticVersion_str(cur_ver)
       IN  /\ commits' = <<[hexsha |-> sha, message |-> ReleaseMessage(cur_ver)]>>
                             \o commits
           /\ IF \E i \in 1..Len(tags) : tags[i].name = name
              THEN pc' = "exit" /\ exc' = "GitCommandError" /\ tags' = tags
              ELSE /\ pc' = "done"
                   /\ exc' = exc
                   /\ \E k \in 0..Len(tags) :
                          tags' = SubSeq(tags, 1, k)
                                      \o <<[name |-> name, commit |-> sha]>>
                                      \o SubSeq(tags, k + 1, Len(tags))
    /\ UNCHANGED <<version_file, changelog_dir, head_ref, untracked_files,
                   release_type, cur_ver, init_sha, walked, raw, log, s>>

Next ==
    \/ PreCheck
    \/ Load
    \/ ChangeLog
    \/ Bump
    \/ RenderWrite
    \/ Input
    \/ Dump
    \/ CommitChange

----------------------------------------------------------------------------
(* The inputs of a run *)

V_1_2_3 == <<"1", ".", "2", ".", "3">>

\* Version files of the release runs: well-formed ones, ones with a
\* prerelease and build metadata, one ending in a newline, malformed ones
RunVersionTexts ==
    {V_1_2_3,
     <<"0", ".", "9", ".", "9">>,
     <<"1", ".", "2", ".", "3", "-", "r", "c", "1", "+", "b", "1">>,
     <<"1", ".", "2", ".", "3", "\n">>,
     <<"0", "1", ".", "2", ".", "3">>,
     <<"1", ".", "2">>,
     <<"2", ".", "0", ".", "0", "-", "0", ".", "a">>}

TagNames ==
    <<<<"1", ".", "2", ".", "3">>,
      <<"v", "1", ".", "2", ".", "3">>,
      <<"v", "0", ".", "9", ".", "0">>,
      <<"1", ".", "2", ".", "4">>>>

\* Lists of at most n tags with different names, a tag named TagNames[i]
\* pointing at one of targets[i]
TagLists(n, targets) ==
    LET all == UNION {{[name |-> TagNames[i], commit |-> c] : c \in targets[i]} :
                          i \in 1..Len(TagNames)}
    IN  UNION {{ts \in [1..k -> all] :
                    \A i, j \in 1..k : i # j => ts[i].name # ts[j].name} :
                   k \in 0..n}

\* In the release runs each tag name has one target
RunTargets == <<{2}, {1}, {3}, {1}>>

Messages ==
    <<<<"f", "i", "x", ":", " ", "y">>,
      <<"d", "o", "c", "s", ":", " ", "z">>,
      <<"f", "e", "a", "t", ":", " ", "x">>,
      <<"b", "u", "i", "l", "d", ":", " ", "b">>,
      <<"f", "i", "x", "(", "u", "i", ")", ":", " ", "w", "\n">>,
      <<"r", "e", "f", "a", "c", "t", "o", "r", "(", "a", "p", "i", ")", ":", " ", "r", "\n", "s">>>>

\* Newest-first streams of k commits, k drawn from lens, hexsha k down to 1,
\* with messages Messages[i], i drawn from choice
Streams(lens, choice) ==
    UNION {{[i \in 1..k |-> [hexsha |-> k + 1 - i, message |-> Messages[f[i]]]] :
                f \in [1..k -> choice]} : k \in lens}

\* The stream of k commits whose messages cycle through the first three
CycleStream(k) ==
    [i \in 1..k |-> [hexsha |-> k + 1 - i,
                     message |-> Messages[((k - i) % 3) + 1]]]

OldFile == [name |-> <<"1", ".", "2", ".", "4", ".", "m", "d">>, content |-> <<"o", "l", "d">>]

StartOfRun ==
    /\ cur_ver = NoVersion
    /\ init_sha = NoSha
    /\ walked = <<>>
    /\ raw = <<>>
    /\ log = <<>>
    /\ s = None
    /\ pc = "pre_check"
    /\ exc = "None"

\* Release runs: every version file, release type and pre-check outcome, over
\* small repositories
Init ==
    /\ version_file \in RunVersionTexts
    /\ changelog_dir \in {{}, {OldFile}}
    /\ head_ref \in {"master", "dev"}
    /\ untracked_files \in {<<>>, <<"notes.txt">>}
    /\ tags \in TagLists(MaxTags, RunTargets)
    /\ commits \in {CycleStream(k) : k \in 1..MaxCommits}
    /\ release_type \in {"major", "minor", "patch"}
    /\ StartOfRun

Spec == Init /\ [][Next]_vars

\* Changelog runs: every stream of messages, one tag naming the current
\* version on any commit of the stream or on none of it
InitLog ==
    /\ version_file = V_1_2_3
    /\ changelog_dir = {}
    /\ head_ref = "master"
    /\ untracked_files = <<>>
    /\ tags \in {<<[name |-> TagNames[2], commit |-> c]>> : c \in 1..(MaxCommits + 1)}
    /\ commits \in Streams(1..MaxCommits, 1..Len(Messages))
    /\ release_type = "minor"
    /\ StartOfRun

SpecLog == InitLog /\ [][Next]_vars

\* Tag runs: every list of tags, each on any commit of the stream or on none
InitTags ==
    /\ version_file = V_1_2_3
    /\ changelog_dir = {}
    /\ head_ref = "master"
    /\ untracked_files = <<>>
    /\ tags \in TagLists(MaxTags, [i \in 1..Len(TagNames) |-> 1..(MaxCommits + 1)])
    /\ commits = CycleStream(MaxCommits)
    /\ release_type = "patch"
    /\ StartOfRun

SpecTags == InitTags /\ [][Next]_vars

\* Decimal strings of 1 to n digits, leading zeros included
DigitStrings(n) ==
    UNION {[1..k -> {"0", "1", "9"}] : k \in 1..n}

Opt(prefix, bodies) == {<<>>} \cup {prefix \o b : b \in bodies}

\* Version texts: three components, an optional prerelease, optional build
\* metadata and what may follow them
SemverTexts ==
    {major \o <<".">> \o rest \o pre \o build \o tail :
        major \in DigitStrings(MaxDigits),
        rest \in {<<"2", ".", "3">>, <<"0", ".", "0">>, <<"0", "2", ".", "3">>, <<"2">>},
        pre \in Opt(<<"-">>, {<<"r", "c", "1">>, <<"0">>, <<"0", "1">>, <<"a", ".", "1">>, <<"a", ".", ".", "b">>, <<>>}),
        build \in Opt(<<"+">>, {<<"b", "1">>, <<"0", "1">>, <<"b", ".", "-">>, <<>>}),
        tail \in {<<>>, <<"\n">>, <<" ">>, <<"\n", "\n">>}}

\* Version runs: every version text over one small repository
InitSemver ==
    /\ version_file \in SemverTexts
    /\ changelog_dir = {}
    /\ head_ref = "master"
    /\ untracked_files = <<>>
    /\ tags = <<[name |-> TagNames[3], commit |-> 1]>>
    /\ commits = CycleStream(2)
    /\ release_type = "patch"
    /\ StartOfRun

SpecSemver == InitSemver /\ [][Next]_vars

\* Commit messages: a type, a scope, a colon or none, and a description of
\* at most n characters
CommitTexts(n) ==
    {type \o scope \o colon \o d :
        type \in {<<"f", "e", "a", "t">>, <<"f", "i", "x">>, <<"d", "o", "c", "s">>},
        scope \in {<<>>, <<"(", "a", "p", "i", ")">>, <<"(", "a", " ", "b", ")">>},
        colon \in {<<":">>, <<>>},
        d \in UNION {[1..k -> {" ", "\n", "\t", "\r", "x"}] : k \in 0..n}}

\* Classifier runs: every commit message on the one commit in scope
InitCommit ==
    /\ version_file = V_1_2_3
    /\ changelog_dir = {}
    /\ head_ref = "master"
    /\ untracked_files = <<>>
    /\ tags = <<[name |-> TagNames[2], commit |-> 2]>>
    /\ commits \in {<<[hexsha |-> 1, message |-> m]>> : m \in CommitTexts(MaxDescLen)}
    /\ release_type = "patch"
    /\ StartOfRun

SpecCommit == InitCommit /\ [][Next]_vars

----------------------------------------------------------------------------
(* Properties *)

Confirming == {<<"y">>, <<"Y">>}

\* From the bump to the prompt: the version is bumped, nothing is persisted
AfterBump == {"render", "input"}

\* From the end of change_log to the prompt
AfterChangeLog == {"bump", "render", "input"}

\* The version the run loaded, read again from the file it has not yet rewritten
LoadedVersion == SemanticVersion_parse(semver_re_match(version_file))

ChangelogFileName == SemanticVersion_str(cur_ver) \o MdSuffix

C2_RoundTrip ==
    pc = "change_log" => SemanticVersion_str(cur_ver) = version_file

\* C3: after the bump, whatever the loaded version and the release type, the
\* version has no prerelease and no build metadata, and its string is exactly
\* MAJOR.MINOR.PATCH.
C3_BumpDropsPrereleaseAndBuild ==
    pc \in AfterBump =>
        /\ cur_ver.prerelease = None
        /\ cur_ver.build_metadata = None
        /\ SemanticVersion_str(cur_ver) =
               format_int(cur_ver.major) \o <<".">> \o format_int(cur_ver.minor)
                   \o <<".">> \o format_int(cur_ver.patch)

\* C4: in a repository without tags a run fails only in the pre-check or
\* because the version file does not parse; building the changelog does not
\* fail.
C4_NoTagsDoesNotFail ==
    (Len(tags) = 0 /\ pc = "exit") => exc \in {"SystemExit", "ValueError"}

\* The index of the first commit of the stream whose hexsha is sha
FirstAt(sha) ==
    CHOOSE k \in 1..Len(commits) :
        commits[k].hexsha = sha /\ \A j \in 1..(k - 1) : commits[j].hexsha # sha

\* The groups' commits, one after another
RECURSIVE Flatten(_)
Flatten(m) == IF Len(m) = 0 THEN <<>> ELSE m[1][2] \o Flatten(Tail(m))

\* C5: when the boundary identifier occurs in the stream, the commits walked
\* are exactly the stream before the first commit with that identifier, in
\* stream order, and the changelog holds one entry for each of them that
\* classifies and nothing else: neither the boundary commit nor a later one.
C5_WalkStopsBeforeBoundary ==
    (pc \in AfterChangeLog /\ \E k \in 1..Len(commits) : commits[k].hexsha = init_sha) =>
        LET before == SubSeq(commits, 1, FirstAt(init_sha) - 1)
        IN  /\ walked = before
            /\ Len(Flatten(raw)) =
                   Cardinality({i \in 1..Len(before) :
                                    semantic_re_match(before[i].message) # None})
            /\ \A c \in {Flatten(raw)[i] : i \in 1..Len(Flatten(raw))} :
                   \E i \in 1..Len(before) :
                       ConventionalCommit_parse(before[i].message) = c

\* The boundary is the second of three commits: the newest commit is walked,
\* the boundary commit and the older one are not
C5_Witness ==
    /\ pc = "bump"
    /\ Len(commits) = 3
    /\ init_sha = 2
    /\ walked = <<commits[1]>>
    /\ semantic_re_match(commits[2].message) # None
    /\ Len(Flatten(raw)) = 1

\* The boundary an operator of one version name selects among the tags
BoundaryFor(name) ==
    LET hits == {i \in 1..Len(tags) :
                     tags[i].name = name \/ tags[i].name = <<"v">> \o name}
    IN  IF hits # {}
        THEN tags[CHOOSE i \in hits : \A j \in hits : i <= j].commit
        ELSE tags[Len(tags)].commit

\* C6: the boundary and the commits in scope are those of the version the
\* run loaded, not of the bumped one, and stay so across the bump; the
\* document's heading and the changelog file's name carry the bumped version.
C6_ChangelogOfLoadedVersionUnderBumpedName ==
    /\ pc \in AfterBump =>
           /\ cur_ver # LoadedVersion
           /\ init_sha = BoundaryFor(SemanticVersion_str(LoadedVersion))
           /\ walked = iter_commits_to(commits, init_sha)
           /\ Flatten(raw) = sorted_by_type(collect(walked))
    /\ pc = "input" =>
           /\ StartsWith(log, Title \o SemanticVersion_str(cur_ver) \o <<" ", "\n">>)
           /\ [name |-> ChangelogFileName, content |-> log] \in changelog_dir

\* The bumped version names a tag too, on another commit than the boundary:
\* resolving after the bump would have selected other commits
C6_Witness ==
    /\ pc = "input"
    /\ find_tag_by_name(tags, SemanticVersion_str(cur_ver)) # NoTag
    /\ find_tag_by_name(tags, SemanticVersion_str(cur_ver)).commit # init_sha
    /\ walked # iter_commits_to(commits,
                     find_tag_by_name(tags, SemanticVersion_str(cur_ver)).commit)
    /\ Len(walked) > 0

\* What the walked commits classify to, None for those that do not
Classified == [i \in 1..Len(walked) |-> ConventionalCommit_parse(walked[i].message)]

OfType(t) == SelectSeq(Classified, LAMBDA c : c # None /\ cc_type(c) = t)

\* C7: the changelog has its groups in strictly ascending order of category
\* name, so no category twice; a category has a group exactly when a walked
\* commit classifies to it; a group holds exactly the classified commits of
\* its category; so a message that does not classify is in no group.
C7_GroupsByCategory ==
    pc \in AfterChangeLog =>
        /\ \A g \in 1..(Len(raw) - 1) : StrLess(raw[g][1], raw[g + 1][1])
        /\ \A k \in 1..Len(CommitTypes) :
               (\E g \in 1..Len(raw) : raw[g][1] = CommitTypes[k])
                   <=> (\E i \in 1..Len(Classified) :
                            Classified[i] # None /\ cc_type(Classified[i]) = CommitTypes[k])
        /\ \A g \in 1..Len(raw) :
               /\ \E k \in 1..Len(CommitTypes) : raw[g][1] = CommitTypes[k]
               /\ raw[g][2] = OfType(raw[g][1])

\* fix, feat, fix walked, none of them dropped: the groups are feat with one
\* commit, then fix with the two
C7_Witness ==
    /\ pc = "bump"
    /\ Len(walked) = 3
    /\ cc_type(Classified[1]) = CommitTypes[2]
    /\ cc_type(Classified[2]) = CommitTypes[1]
    /\ cc_type(Classified[3]) = CommitTypes[2]
    /\ Classified[1] # Classified[3]
    /\ Len(raw) = 2
    /\ raw[1][1] = CommitTypes[1]
    /\ raw[2][2] = <<Classified[1], Classified[3]>>

\* C8: after the bump the components are, for major (major+1, 0, 0), for
\* minor (major, minor+1, 0), for patch (major, minor, patch+1) of the
\* version loaded.
C8_BumpComponents ==
    pc \in AfterBump =>
        LET v == LoadedVersion
            got == <<cur_ver.major, cur_ver.minor, cur_ver.patch>>
        IN  /\ release_type = "major" => got = <<v.major + 1, 0, 0>>
            /\ release_type = "minor" => got = <<v.major, v.minor + 1, 0>>
            /\ release_type = "patch" => got = <<v.major, v.minor, v.patch + 1>>

\* 0.9.9 bumped as minor is 0.10.0
C8_Witness ==
    /\ pc = "input"
    /\ release_type = "minor"
    /\ LoadedVersion.patch = 9
    /\ <<cur_ver.major, cur_ver.minor, cur_ver.patch>> = <<0, 10, 0>>

\* C9: if some tag is named as the current version or "v" + it, the boundary
\* is the commit of the first such tag in tag order; otherwise, with at least
\* one tag, it is the commit of the last tag in tag order.
C9_BoundaryResolution ==
    pc \in AfterChangeLog =>
        LET name == SemanticVersion_str(LoadedVersion)
            named == {i \in 1..Len(tags) :
                          tags[i].name = name \/ tags[i].name = <<"v">> \o name}
        IN  IF named # {}
            THEN \E i \in named : /\ \A j \in named : i <= j
                                  /\ init_sha = tags[i].commit
            ELSE Len(tags) > 0 /\ init_sha = tags[Len(tags)].commit

\* No tag names the version; of two tags on different commits the last one
\* gives the boundary
C9_Witness ==
    /\ pc = "bump"
    /\ Len(tags) = 2
    /\ find_tag_by_name(tags, SemanticVersion_str(cur_ver)) = NoTag
    /\ tags[1].commit # tags[2].commit
    /\ init_sha = tags[2].commit

Whitespace == {" ", "\n", "\t", "\r"}

\* C10: the description of every classified commit holds no newline and
\* neither begins nor ends with a space, a newline, a tab or a carriage
\* return.
C10_DescriptionTrimmed ==
    pc \in AfterChangeLog =>
        \A i \in 1..Len(Flatten(raw)) :
            LET d == cc_description(Flatten(raw)[i])
            IN  /\ \A k \in 1..Len(d) : d[k] # "\n"
                /\ Len(d) > 0 => d[1] \notin Whitespace /\ d[Len(d)] \notin Whitespace

====
